---- MODULE Spec2Model ----
(***************************************************************************)
(* Savings Community backend (src/main.py): the SQLite database with its   *)
(* four tables, the request handlers create_goal, log_sacrifice,           *)
(* google_callback, get_dashboard, get_leaderboard and get_feed, each      *)
(* handler thread with its own connection (sqlite3's default               *)
(* isolation_level and rollback journal).                                  *)
(* A connection's SELECT runs outside any transaction; its                 *)
(* first INSERT/UPDATE opens the transaction and takes the database's      *)
(* single write lock; commit() publishes the transaction; closing the      *)
(* connection without commit() rolls it back.                              *)
(* Money is counted in cents.                                              *)
(***************************************************************************)
EXTENDS Integers, Sequences, FiniteSets, TLC

\* ------------------------------------------------------------------ bounds
\* handler threads working at the same time
NumProcs == 2
\* POST and GET requests accepted in one behaviour
MaxOps == 2
\* google_callback requests accepted in one behaviour
MaxLogins == 1
\* rows the users table may grow to
MaxUsers == 4

Procs == 1..NumProcs

\* ------------------------------------------------------------- dummy data
DummyUsers ==
    << [email |-> "dummy1@example.com", google_sub |-> "dummy-1",
        total_saved |-> 42150, current_streak |-> 5],
       [email |-> "dummy2@example.com", google_sub |-> "dummy-2",
        total_saved |-> 28500, current_streak |-> 3],
       [email |-> "dummy3@example.com", google_sub |-> "dummy-3",
        total_saved |-> 56725, current_streak |-> 7] >>

DummyGoals ==
    << [user_id |-> 1, title |-> "Concert Tickets", target_amount |-> 18000,
        current_amount |-> 4500, category |-> "Entertainment"],
       [user_id |-> 1, title |-> "Weekend Trip", target_amount |-> 40000,
        current_amount |-> 12000, category |-> "Travel"],
       [user_id |-> 2, title |-> "New Laptop", target_amount |-> 80000,
        current_amount |-> 28500, category |-> "Technology"],
       [user_id |-> 3, title |-> "Emergency Fund", target_amount |-> 100000,
        current_amount |-> 56725, category |-> "Savings"] >>

DummySacrifices ==
    << [user_id |-> 1, title |-> "Skipped Latte", amount |-> 450, days_count |-> 4],
       [user_id |-> 1, title |-> "Packed Lunch", amount |-> 950, days_count |-> 5],
       [user_id |-> 2, title |-> "No Takeout", amount |-> 1500, days_count |-> 3],
       [user_id |-> 3, title |-> "Walked Instead", amount |-> 800, days_count |-> 7] >>

\* the feed rows create_dummy_data derives from the goals and the sacrifices
DummyFeed ==
    [i \in 1..Len(DummyGoals) |->
        [user_id |-> DummyGoals[i].user_id, event_type |-> "goal_created",
         ref_id |-> i, title |-> DummyGoals[i].title, days |-> 0]]
    \o
    [i \in 1..Len(DummySacrifices) |->
        [user_id |-> DummySacrifices[i].user_id, event_type |-> "sacrifice_logged",
         ref_id |-> i, title |-> DummySacrifices[i].title,
         days |-> DummySacrifices[i].days_count]]

\* the database init_db leaves behind: a row's id is its index in its table
InitDb ==
    [users |-> DummyUsers, goals |-> DummyGoals,
     sacrifices |-> DummySacrifices, feed |-> DummyFeed]

\* ------------------------------------------------------------------ inputs
\* a token's user id that has no row in users: get_current_user checks the
\* signature and the expiry only, never the users table
StaleId == MaxUsers + 1

Body(o, t, a) == [op |-> o, title |-> t, amount |-> a, parses |-> TRUE]

\* request bodies; parses = FALSE is a body pydantic rejects (a field
\* missing or of the wrong type)
SacrificeBodies ==
    { Body("sacrifice", "Tea", 450), Body("sacrifice", "Tea", 500),
      Body("sacrifice", "Skipped Latte", 500), Body("sacrifice", "", 450),
      Body("sacrifice", "Tea", -500),
      [op |-> "sacrifice", title |-> "", amount |-> 0, parses |-> FALSE] }

GoalBodies ==
    { Body("goal", "Trip", 30000), Body("goal", "", 30000),
      Body("goal", "Trip", 0),
      [op |-> "goal", title |-> "", amount |-> 0, parses |-> FALSE] }

NoRequest == [op |-> "none", title |-> "", amount |-> 0, parses |-> FALSE]

Subjects == {"dummy-1", "g-1"}
Emails == {"dummy1@example.com", "a@example.com"}

NoTx == [users |-> <<>>, goals |-> <<>>, sacrifices |-> <<>>, feed |-> <<>>]
NoRow == [id |-> 0, days_count |-> 0, amount |-> 0]

\* an HTTP response: status, the handler that answered, and the fields of
\* its body the properties read
NoResponse == [op |-> "none", status |-> 0, user |-> 0, id |-> 0, days |-> 0,
               total_saved |-> 0, current_streak |-> 0, goals |-> 0,
               sacrifices |-> 0, rows |-> <<>>]

VARIABLES
    db,         \* the committed database, what every other connection reads
    tx,         \* tx[p]: the database as p's open transaction sees it, or NoTx
    lock,       \* the connection holding the write lock, 0 when free
    pc,         \* pc[p]: the statement handler p executes next
    uid,        \* uid[p]: user_id of p's request (from the token)
    req,        \* req[p]: body of p's request
    existing,   \* existing[p]: the row log_sacrifice fetched, NoRow if none
    new_days,   \* new_days[p]
    row_id,     \* row_id[p]: sacrifice_id / goal_id
    response,   \* the response sent last
    ops,        \* POST and GET requests accepted so far
    logins,     \* google_callback requests accepted so far
    \* history of the behaviour, read by the properties only
    okSum,      \* okSum[u]: sum of the amounts of u's successful log_sacrifice
    okCnt,      \* okCnt[u]: number of u's successful log_sacrifice calls
    matched,    \* matched[s]: successful log_sacrifice calls that fetched row s
    created,    \* ids of the accounts google_callback inserted
    seen,       \* seen[p]: okCnt of p's account when p ran its SELECT
    raced       \* ids credited by a call whose SELECT preceded another
                \* call's commit for the same account

vars == <<db, tx, lock, pc, uid, req, existing, new_days, row_id, response,
          ops, logins, okSum, okCnt, matched, created, seen, raced>>

locals == <<existing, new_days, row_id>>
hist == <<logins, okSum, okCnt, matched, created, seen, raced>>

AllIds == 1..(MaxUsers + 1)

Init ==
    /\ db = InitDb
    /\ tx = [p \in Procs |-> NoTx]
    /\ lock = 0
    /\ pc = [p \in Procs |-> "idle"]
    /\ uid = [p \in Procs |-> 0]
    /\ req = [p \in Procs |-> NoRequest]
    /\ existing = [p \in Procs |-> NoRow]
    /\ new_days = [p \in Procs |-> 0]
    /\ row_id = [p \in Procs |-> 0]
    /\ response = NoResponse
    /\ ops = 0
    /\ logins = 0
    /\ okSum = [u \in AllIds |-> 0]
    /\ okCnt = [u \in AllIds |-> 0]
    /\ matched = [s \in 1..(Len(DummySacrifices) + MaxOps) |-> 0]
    /\ created = {}
    /\ seen = [p \in Procs |-> 0]
    /\ raced = {}

\* ---------------------------------------------------------- SQL statements
\* SELECT * FROM sacrifices WHERE user_id = ? AND title = ?, then fetchone():
\* the first matching row in rowid order, NoRow when there is none
SelectSacrifice(d, u, t) ==
    LET hits == {i \in 1..Len(d.sacrifices) :
                    d.sacrifices[i].user_id = u /\ d.sacrifices[i].title = t}
    IN  IF hits = {} THEN NoRow
        ELSE LET i == CHOOSE i \in hits : \A j \in hits : i <= j
             IN  [id |-> i, days_count |-> d.sacrifices[i].days_count,
                  amount |-> d.sacrifices[i].amount]

\* CanWrite without the lock: two connections write at the same time
CanWriteUnlocked(p) == TRUE

\* the write lock: a connection's first INSERT/UPDATE opens its transaction
\* and needs the lock no other connection holds
CanWrite(p) == lock = 0

\* the database a statement of p runs against
View(p) == IF tx[p] = NoTx THEN db ELSE tx[p]

\* UPDATE sacrifices SET days_count = ? WHERE id = ?  with the new_days
\* computed from the fetched row
UpdateSacrifice(d, p) ==
    [d EXCEPT !.sacrifices =
        [i \in 1..Len(d.sacrifices) |->
            IF i = existing[p].id
            THEN [d.sacrifices[i] EXCEPT !.days_count = existing[p].days_count + 1]
            ELSE d.sacrifices[i]]]

\* InsertSacrifice on a table whose days_count has DEFAULT 0
InsertSacrificeDefaultZero(d, p) ==
    [d EXCEPT !.sacrifices =
        Append(d.sacrifices,
               [user_id |-> uid[p], title |-> req[p].title,
                amount |-> req[p].amount, days_count |-> 0])]

\* INSERT INTO sacrifices (user_id, title, amount, last_done_date):
\* days_count takes its DEFAULT 1
InsertSacrifice(d, p) ==
    [d EXCEPT !.sacrifices =
        Append(d.sacrifices,
               [user_id |-> uid[p], title |-> req[p].title,
                amount |-> req[p].amount, days_count |-> 1])]

\* CreditUser without its WHERE clause: the UPDATE credits every user
CreditUserEveryRow(d, p) ==
    [d EXCEPT !.users =
        [i \in 1..Len(d.users) |->
            [d.users[i] EXCEPT
                !.total_saved = d.users[i].total_saved + req[p].amount,
                !.current_streak = d.users[i].current_streak + 1]]]

\* CreditUser crediting the amount stored on the fetched sacrifice row
CreditUserStoredAmount(d, p) ==
    [d EXCEPT !.users =
        [i \in 1..Len(d.users) |->
            IF i = uid[p]
            THEN [d.users[i] EXCEPT
                    !.total_saved = d.users[i].total_saved +
                        (IF existing[p] # NoRow THEN existing[p].amount
                                                ELSE req[p].amount),
                    !.current_streak = d.users[i].current_streak + 1]
            ELSE d.users[i]]]

\* CreditUser restarting the streak when the title is new
CreditUserStreakRestarts(d, p) ==
    [d EXCEPT !.users =
        [i \in 1..Len(d.users) |->
            IF i = uid[p]
            THEN [d.users[i] EXCEPT
                    !.total_saved = d.users[i].total_saved + req[p].amount,
                    !.current_streak = IF existing[p] = NoRow THEN 1
                                       ELSE d.users[i].current_streak + 1]
            ELSE d.users[i]]]

\* UPDATE users SET total_saved = total_saved + ?,
\*                  current_streak = current_streak + 1 WHERE id = ?
CreditUser(d, p) ==
    [d EXCEPT !.users =
        [i \in 1..Len(d.users) |->
            IF i = uid[p]
            THEN [d.users[i] EXCEPT
                    !.total_saved = d.users[i].total_saved + req[p].amount,
                    !.current_streak = d.users[i].current_streak + 1]
            ELSE d.users[i]]]

\* InsertFeed keeping one event per (user, kind, row): a repeat overwrites
InsertFeedUpsert(d, p, kind, days) ==
    LET e == [user_id |-> uid[p], event_type |-> kind, ref_id |-> row_id[p],
              title |-> req[p].title, days |-> days]
        old == {i \in 1..Len(d.feed) :
                   /\ d.feed[i].user_id = uid[p]
                   /\ d.feed[i].event_type = kind
                   /\ d.feed[i].ref_id = row_id[p]}
    IN  [d EXCEPT !.feed =
            IF old = {} THEN Append(d.feed, e)
            ELSE [i \in 1..Len(d.feed) |-> IF i \in old THEN e ELSE d.feed[i]]]

\* INSERT INTO feed_events (user_id, event_type, event_data)
InsertFeed(d, p, kind, days) ==
    [d EXCEPT !.feed =
        Append(d.feed, [user_id |-> uid[p], event_type |-> kind,
                        ref_id |-> row_id[p], title |-> req[p].title,
                        days |-> days])]

\* INSERT INTO goals (user_id, title, target_amount, category):
\* current_amount takes its DEFAULT 0
InsertGoal(d, p) ==
    [d EXCEPT !.goals =
        Append(d.goals, [user_id |-> uid[p], title |-> req[p].title,
                         target_amount |-> req[p].amount, current_amount |-> 0,
                         category |-> "General"])]

\* CloseConn publishing what the transaction wrote so far
CloseConnCommits(p) == View(p)

\* get_db's finally: conn.close() on a connection that did not commit
\* discards its transaction; the committed database stays as it was
CloseConn(p) == db

\* ------------------------------------------------------- request handling
\* ids a valid bearer token may carry: the first dummy account, the accounts
\* google_callback created, and the stale id
TokenIds == {1} \cup created \cup {StaleId}

\* the POST requests that may arrive: every body for an account
\* google_callback created; for the dummy account a repeat of its "Skipped
\* Latte" at another amount than the stored one; for the stale id one
\* well-formed body of each kind
Requests ==
    {<<u, b>> : u \in created, b \in SacrificeBodies \cup GoalBodies}
    \cup {<<1, Body("sacrifice", "Skipped Latte", 500)>>,
          <<StaleId, Body("sacrifice", "Tea", 450)>>,
          <<StaleId, Body("goal", "Trip", 30000)>>}

\* the handler thread is back in the pool: its request and locals are gone
Release(p) ==
    /\ pc' = [pc EXCEPT ![p] = "idle"]
    /\ uid' = [uid EXCEPT ![p] = 0]
    /\ req' = [req EXCEPT ![p] = NoRequest]
    /\ existing' = [existing EXCEPT ![p] = NoRow]
    /\ new_days' = [new_days EXCEPT ![p] = 0]
    /\ row_id' = [row_id EXCEPT ![p] = 0]
    /\ seen' = [seen EXCEPT ![p] = 0]

\* a POST arrives at an idle handler thread: get_current_user yields the
\* token's user id, pydantic builds the body or answers 422
Accept(p, u, body) ==
    /\ pc[p] = "idle"
    /\ \A q \in Procs : q < p => pc[q] # "idle"
    /\ ops < MaxOps
    /\ ops' = ops + 1
    /\ IF body.parses
       THEN /\ pc' = [pc EXCEPT ![p] = IF body.op = "goal" THEN "ginsert" ELSE "select"]
            /\ uid' = [uid EXCEPT ![p] = u]
            /\ req' = [req EXCEPT ![p] = body]
            /\ UNCHANGED response
       ELSE /\ response' = [NoResponse EXCEPT !.op = body.op, !.status = 422]
            /\ UNCHANGED <<pc, uid, req>>
    /\ UNCHANGED <<db, tx, lock, locals, hist>>

\* log_sacrifice, the SELECT and fetchone(): no transaction is open, the
\* statement reads the committed database
LsSelect(p) ==
    /\ pc[p] = "select"
    /\ existing' = [existing EXCEPT ![p] = SelectSacrifice(View(p), uid[p], req[p].title)]
    /\ seen' = [seen EXCEPT ![p] = okCnt[uid[p]]]
    /\ pc' = [pc EXCEPT ![p] = "write"]
    /\ UNCHANGED <<db, tx, lock, uid, req, new_days, row_id, response, ops,
                   logins, okSum, okCnt, matched, created, raced>>

\* log_sacrifice, the branch "if existing": new_days and the UPDATE
LsUpdate(p) ==
    /\ pc[p] = "write"
    /\ existing[p] # NoRow
    /\ CanWrite(p)
    /\ lock' = p
    /\ new_days' = [new_days EXCEPT ![p] = existing[p].days_count + 1]
    /\ tx' = [tx EXCEPT ![p] = UpdateSacrifice(View(p), p)]
    /\ row_id' = [row_id EXCEPT ![p] = existing[p].id]
    /\ pc' = [pc EXCEPT ![p] = "credit"]
    /\ UNCHANGED <<db, uid, req, existing, response, ops, hist>>

\* log_sacrifice, the branch "else": the INSERT, lastrowid, new_days = 1
LsInsert(p) ==
    /\ pc[p] = "write"
    /\ existing[p] = NoRow
    /\ CanWrite(p)
    /\ lock' = p
    /\ tx' = [tx EXCEPT ![p] = InsertSacrifice(View(p), p)]
    /\ row_id' = [row_id EXCEPT ![p] = Len(View(p).sacrifices) + 1]
    /\ new_days' = [new_days EXCEPT ![p] = 1]
    /\ pc' = [pc EXCEPT ![p] = "credit"]
    /\ UNCHANGED <<db, uid, req, existing, response, ops, hist>>

\* log_sacrifice, the UPDATE of the user's total and streak
LsCredit(p) ==
    /\ pc[p] = "credit"
    /\ tx' = [tx EXCEPT ![p] = CreditUser(View(p), p)]
    /\ pc' = [pc EXCEPT ![p] = "feed"]
    /\ UNCHANGED <<db, lock, uid, req, locals, response, ops, hist>>

\* log_sacrifice, the INSERT of the feed event
LsFeed(p) ==
    /\ pc[p] = "feed"
    /\ tx' = [tx EXCEPT ![p] = InsertFeed(View(p), p, "sacrifice_logged", new_days[p])]
    /\ pc' = [pc EXCEPT ![p] = "commit"]
    /\ UNCHANGED <<db, lock, uid, req, locals, response, ops, hist>>

\* log_sacrifice, conn.commit() and the response
LsCommit(p) ==
    /\ pc[p] = "commit"
    /\ db' = tx[p]
    /\ tx' = [tx EXCEPT ![p] = NoTx]
    /\ lock' = 0
    /\ response' = [NoResponse EXCEPT !.op = "sacrifice", !.status = 200,
                                      !.user = uid[p], !.id = row_id[p],
                                      !.days = new_days[p]]
    /\ okSum' = [okSum EXCEPT ![uid[p]] = @ + req[p].amount]
    /\ okCnt' = [okCnt EXCEPT ![uid[p]] = @ + 1]
    /\ matched' = IF existing[p] # NoRow
                  THEN [matched EXCEPT ![existing[p].id] = @ + 1]
                  ELSE matched
    /\ raced' = IF okCnt[uid[p]] > seen[p] THEN raced \cup {uid[p]} ELSE raced
    /\ Release(p)
    /\ UNCHANGED <<ops, logins, created>>

\* create_goal, the INSERT of the goal and lastrowid
CgInsert(p) ==
    /\ pc[p] = "ginsert"
    /\ CanWrite(p)
    /\ lock' = p
    /\ tx' = [tx EXCEPT ![p] = InsertGoal(View(p), p)]
    /\ row_id' = [row_id EXCEPT ![p] = Len(View(p).goals) + 1]
    /\ pc' = [pc EXCEPT ![p] = "gfeed"]
    /\ UNCHANGED <<db, uid, req, existing, new_days, response, ops, hist>>

\* create_goal, the INSERT of the feed event
CgFeed(p) ==
    /\ pc[p] = "gfeed"
    /\ tx' = [tx EXCEPT ![p] = InsertFeed(View(p), p, "goal_created", 0)]
    /\ pc' = [pc EXCEPT ![p] = "gcommit"]
    /\ UNCHANGED <<db, lock, uid, req, locals, response, ops, hist>>

\* create_goal, conn.commit() and the response
CgCommit(p) ==
    /\ pc[p] = "gcommit"
    /\ db' = tx[p]
    /\ tx' = [tx EXCEPT ![p] = NoTx]
    /\ lock' = 0
    /\ response' = [NoResponse EXCEPT !.op = "goal", !.status = 200,
                                      !.user = uid[p], !.id = row_id[p]]
    /\ Release(p)
    /\ UNCHANGED <<ops, logins, okSum, okCnt, matched, created, raced>>

\* a statement of p raises (sqlite3.OperationalError: the database is
\* locked past the timeout, the disk fails): get_db closes the connection
\* and the framework answers 500
Fail(p) ==
    /\ pc[p] # "idle"
    /\ db' = CloseConn(p)
    /\ tx' = [tx EXCEPT ![p] = NoTx]
    /\ lock' = IF lock = p THEN 0 ELSE lock
    /\ response' = [NoResponse EXCEPT !.op = req[p].op, !.status = 500]
    /\ Release(p)
    /\ UNCHANGED <<ops, logins, okSum, okCnt, matched, created, raced>>

\* google_callback from "with get_db()" on: look the subject up, insert the
\* account when it is new (email is UNIQUE NOT NULL), issue the token
GoogleCallback(sub, email) ==
    LET hits == {i \in 1..Len(db.users) : db.users[i].google_sub = sub}
        taken == \E i \in 1..Len(db.users) : db.users[i].email = email
        redirect == [NoResponse EXCEPT !.op = "callback", !.status = 307]
    IN  /\ logins < MaxLogins
        /\ logins' = logins + 1
        /\ IF hits # {}
           THEN /\ response' = [redirect EXCEPT !.user = CHOOSE i \in hits : TRUE]
                /\ UNCHANGED <<db, created>>
           ELSE IF taken
           THEN /\ response' = [redirect EXCEPT !.status = 500]
                /\ UNCHANGED <<db, created>>
           ELSE /\ lock = 0
                /\ Len(db.users) < MaxUsers
                /\ db' = [db EXCEPT !.users =
                            Append(@, [email |-> email, google_sub |-> sub,
                                       total_saved |-> 0, current_streak |-> 0])]
                /\ response' = [redirect EXCEPT !.user = Len(db.users) + 1]
                /\ created' = created \cup {Len(db.users) + 1}
        /\ UNCHANGED <<tx, lock, pc, uid, req, locals, ops, okSum, okCnt,
                       matched, seen, raced>>

\* the rows of table t owned by user u
OwnedBy(t, u) == {i \in 1..Len(t) : t[i].user_id = u}

Min(a, b) == IF a < b THEN a ELSE b

\* get_dashboard: dict(c.fetchone()) raises TypeError when the user row is
\* missing, which the framework answers with 500
GetDashboard(u) ==
    /\ ops < MaxOps
    /\ ops' = ops + 1
    /\ response' =
          IF u \in 1..Len(db.users)
          THEN [NoResponse EXCEPT !.op = "dashboard", !.status = 200, !.user = u,
                    !.total_saved = db.users[u].total_saved,
                    !.current_streak = db.users[u].current_streak,
                    !.goals = Cardinality(OwnedBy(db.goals, u)),
                    !.sacrifices = Min(5, Cardinality(OwnedBy(db.sacrifices, u)))]
          ELSE [NoResponse EXCEPT !.op = "dashboard", !.status = 500, !.user = u]
    /\ UNCHANGED <<db, tx, lock, pc, uid, req, locals, hist>>

Next ==
    \/ \E p \in Procs, r \in Requests : Accept(p, r[1], r[2])
    \/ \E p \in Procs : LsSelect(p)
    \/ \E p \in Procs : LsUpdate(p)
    \/ \E p \in Procs : LsInsert(p)
    \/ \E p \in Procs : LsCredit(p)
    \/ \E p \in Procs : LsFeed(p)
    \/ \E p \in Procs : LsCommit(p)
    \/ \E p \in Procs : CgInsert(p)
    \/ \E p \in Procs : CgFeed(p)
    \/ \E p \in Procs : CgCommit(p)
    \/ \E p \in Procs : Fail(p)
    \/ \E s \in Subjects, e \in Emails : GoogleCallback(s, e)
    \/ \E u \in TokenIds : GetDashboard(u)

Spec == Init /\ [][Next]_vars

\* ------------------------------------------------------------- properties
\* total_saved and current_streak of user u right after its row was inserted
InitialTotal(u) ==
    IF u <= Len(DummyUsers) THEN DummyUsers[u].total_saved ELSE 0

InitialStreak(u) ==
    IF u <= Len(DummyUsers) THEN DummyUsers[u].current_streak ELSE 0

\* days_count of sacrifice row s right after it was inserted
InitialDays(s) ==
    IF s <= Len(DummySacrifices) THEN DummySacrifices[s].days_count ELSE 1

UserIds == 1..Len(db.users)

\* p's request ends with this step
Finishes(p) == pc[p] # "idle" /\ pc'[p] = "idle"

\* p's request ends with this step, successfully
Succeeds(p) == pc[p] \in {"commit", "gcommit"} /\ Finishes(p) /\ response'.status = 200

\* C1: an account google_callback created (total saved 0) has, after its
\* successful log_sacrifice calls, a total saved equal to the sum of the
\* amounts those calls carried, whatever the titles were.
C1_TotalIsSumOfAmounts ==
    \A u \in created : db.users[u].total_saved = okSum[u]

\* a created account logged the same title twice with different amounts:
\* the row keeps the first amount, the total holds both
C1_Witness ==
    \E u \in created, s \in 1..Len(db.sacrifices) :
        /\ db.sacrifices[s].user_id = u
        /\ db.sacrifices[s].days_count = 2
        /\ okCnt[u] = 2
        /\ db.users[u].total_saved = 950
        /\ db.sacrifices[s].amount = 450

\* C2: no two sacrifice rows of an account share a title, in particular
\* after two concurrent log_sacrifice calls for a title the account never
\* logged.
C2_OneRowPerTitle ==
    \A i, j \in 1..Len(db.sacrifices) :
        (/\ db.sacrifices[i].user_id \in UserIds
         /\ db.sacrifices[i].user_id = db.sacrifices[j].user_id
         /\ db.sacrifices[i].title = db.sacrifices[j].title) => i = j

\* C3: concurrent log_sacrifice calls lose no credit: every account's total
\* saved has grown by the sum of the amounts of its successful calls and its
\* streak by their number.
C3_NoLostCredit ==
    \A u \in UserIds :
        /\ db.users[u].total_saved = InitialTotal(u) + okSum[u]
        /\ db.users[u].current_streak = InitialStreak(u) + okCnt[u]

\* two calls for one account overlapped (one ran its SELECT before the
\* other committed) and both succeeded
C3_Witness ==
    \E u \in raced : u \in UserIds /\ okCnt[u] >= 2

\* C4: a sacrifice row's days_count is its first value plus the number of
\* successful log_sacrifice calls that fetched it, under every interleaving.
C4_CountPerMatchingCall ==
    \A s \in 1..Len(db.sacrifices) :
        db.sacrifices[s].days_count = InitialDays(s) + matched[s]

\* the step publishes all the writes of p's log_sacrifice at once
PublishesSacrifice(p) ==
    /\ pc[p] = "commit" /\ Succeeds(p)
    /\ row_id[p] \in 1..Len(db'.sacrifices)
    /\ db'.sacrifices[row_id[p]].user_id = uid[p]
    /\ db'.sacrifices[row_id[p]].title = req[p].title
    /\ db'.sacrifices[row_id[p]].days_count = new_days[p]
    /\ uid[p] \in UserIds =>
          /\ db'.users[uid[p]].total_saved =
                db.users[uid[p]].total_saved + req[p].amount
          /\ db'.users[uid[p]].current_streak =
                db.users[uid[p]].current_streak + 1
    /\ db'.feed = Append(db.feed,
                         [user_id |-> uid[p], event_type |-> "sacrifice_logged",
                          ref_id |-> row_id[p], title |-> req[p].title,
                          days |-> new_days[p]])
    /\ db'.goals = db.goals

\* the step publishes all the writes of p's create_goal at once
PublishesGoal(p) ==
    /\ pc[p] = "gcommit" /\ Succeeds(p)
    /\ db'.goals = Append(db.goals,
                          [user_id |-> uid[p], title |-> req[p].title,
                           target_amount |-> req[p].amount,
                           current_amount |-> 0, category |-> "General"])
    /\ db'.feed = Append(db.feed,
                         [user_id |-> uid[p], event_type |-> "goal_created",
                          ref_id |-> Len(db.goals) + 1, title |-> req[p].title,
                          days |-> 0])
    /\ db'.sacrifices = db.sacrifices
    /\ \A u \in UserIds : db'.users[u] = db.users[u]

\* C5: create_goal and log_sacrifice are all-or-nothing for every reader:
\* the goals, the sacrifices, the feed and the accounts' totals and streaks
\* in the committed database change only in a step that publishes every
\* write of one successful operation; a failure at any statement leaves all
\* of them as they were.
C5_AllOrNothing ==
    [][ (/\ db' # db
         /\ \/ db'.goals # db.goals
            \/ db'.sacrifices # db.sacrifices
            \/ db'.feed # db.feed
            \/ \E u \in UserIds : db'.users[u] # db.users[u])
        => \E p \in Procs : PublishesSacrifice(p) \/ PublishesGoal(p) ]_vars

\* a log_sacrifice has written its sacrifice row and its credit, not yet its
\* feed event, and the committed database shows none of it
C5_Witness ==
    \E p \in Procs :
        /\ pc[p] = "feed"
        /\ uid[p] \in UserIds
        /\ tx[p].sacrifices # db.sacrifices
        /\ tx[p].users # db.users
        /\ tx[p].feed = db.feed

\* C6: no step decreases an account's total saved or streak.
C6_NeverDecreases ==
    [][ \A u \in UserIds :
          /\ db'.users[u].total_saved >= db.users[u].total_saved
          /\ db'.users[u].current_streak >= db.users[u].current_streak ]_vars

\* C7: a log_sacrifice with an empty title or a non-positive amount ends
\* without success and without a change of the database.
C7_InvalidSacrificeRejected ==
    [][ \A p \in Procs :
          (/\ req[p].op = "sacrifice"
           /\ (req[p].title = "" \/ req[p].amount <= 0)
           /\ Finishes(p))
          => (response'.status # 200 /\ db' = db) ]_vars

\* C8: a create_goal with an empty title or a non-positive target amount ends
\* without success, without a goal row and without a feed event.
C8_InvalidGoalRejected ==
    [][ \A p \in Procs :
          (/\ req[p].op = "goal"
           /\ (req[p].title = "" \/ req[p].amount <= 0)
           /\ Finishes(p))
          => (/\ response'.status # 200
              /\ db'.goals = db.goals
              /\ db'.feed = db.feed) ]_vars

\* C9: the feed is append-only with one event per successful mutating
\* operation: a step in which a create_goal (log_sacrifice) succeeds appends
\* exactly one goal_created (sacrifice_logged) event of its user, and every
\* other step leaves the feed as it is.
C9_FeedAppendOnly ==
    [][ IF \E p \in Procs : Succeeds(p)
        THEN \E p \in Procs, e \in {db'.feed[Len(db'.feed)]} :
                /\ Succeeds(p)
                /\ db'.feed = Append(db.feed, e)
                /\ e.user_id = uid[p]
                /\ e.event_type = IF pc[p] = "gcommit" THEN "goal_created"
                                                      ELSE "sacrifice_logged"
        ELSE db' = db \/ db'.feed = db.feed ]_vars

\* the feed grew by a goal_created and then by a sacrifice_logged event
C9_Witness ==
    /\ Len(db.feed) = Len(DummyFeed) + 2
    /\ db.feed[Len(DummyFeed) + 1].event_type = "goal_created"
    /\ db.feed[Len(DummyFeed) + 2].event_type = "sacrifice_logged"
    /\ db.feed[Len(DummyFeed) + 2].days = 5

\* C10: an account google_callback created (streak 0) has a streak equal to
\* the number of its successful log_sacrifice calls.
C10_StreakIsCallCount ==
    \A u \in created : db.users[u].current_streak = okCnt[u]

\* a created account logged two different titles, the second a new one
C10_Witness ==
    \E u \in created :
        /\ okCnt[u] = 2
        /\ Cardinality(OwnedBy(db.sacrifices, u)) = 2

\* C11: a log_sacrifice whose title matched a sacrifice row of the account
\* raises that row's days_count by exactly 1, adds no sacrifice row, leaves
\* the row's amount at its first value, and returns and writes into its
\* feed event the raised days_count.
C11_MatchIncrementsByOne ==
    [][ \A p \in Procs :
          (pc[p] = "commit" /\ Succeeds(p) /\ existing[p] # NoRow)
          => /\ Len(db'.sacrifices) = Len(db.sacrifices)
             /\ db'.sacrifices[existing[p].id].days_count =
                   db.sacrifices[existing[p].id].days_count + 1
             /\ db'.sacrifices[existing[p].id].amount =
                   db.sacrifices[existing[p].id].amount
             /\ response'.days = db'.sacrifices[existing[p].id].days_count
             /\ db'.feed[Len(db'.feed)].days = response'.days ]_vars

\* C12: a log_sacrifice with a title the account has no sacrifice row for
\* adds exactly one sacrifice row, owned by the account, with days_count 1
\* and the request's amount, appends exactly one sacrifice_logged event to
\* the feed, and returns days 1.
C12_NewTitleCreatesOneRow ==
    [][ \A p \in Procs :
          (/\ pc[p] = "commit" /\ Succeeds(p)
           /\ SelectSacrifice(db, uid[p], req[p].title) = NoRow)
          => /\ db'.sacrifices =
                  Append(db.sacrifices,
                         [user_id |-> uid[p], title |-> req[p].title,
                          amount |-> req[p].amount, days_count |-> 1])
             /\ Len(db'.feed) = Len(db.feed) + 1
             /\ SubSeq(db'.feed, 1, Len(db.feed)) = db.feed
             /\ db'.feed[Len(db'.feed)].user_id = uid[p]
             /\ db'.feed[Len(db'.feed)].event_type = "sacrifice_logged"
             /\ db'.feed[Len(db'.feed)].ref_id = Len(db'.sacrifices)
             /\ db'.feed[Len(db'.feed)].days = 1
             /\ response'.days = 1 ]_vars

\* a created account logged a first title and then another new title; the
\* second call answered with days 1 and its row holds the request's amount
C12_Witness ==
    \E u \in created :
        /\ response.op = "sacrifice" /\ response.status = 200
        /\ response.user = u /\ response.days = 1
        /\ response.id = Len(db.sacrifices)
        /\ db.sacrifices[response.id].user_id = u
        /\ db.sacrifices[response.id].title = "Skipped Latte"
        /\ db.sacrifices[response.id].amount = 500
        /\ db.sacrifices[response.id].days_count = 1
        /\ Cardinality(OwnedBy(db.sacrifices, u)) = 2

\* C13: google_callback matches accounts by subject id only: for a subject
\* no account holds it adds exactly one account with total saved 0 and
\* streak 0, whatever the email is (an email another account holds
\* included); for a subject an account holds it answers with that account
\* and adds none; no two accounts share a subject id.
C13_MatchBySubjectOnly ==
    [][ \A sub \in Subjects, email \in Emails :
          GoogleCallback(sub, email)
          => LET known == {i \in UserIds : db.users[i].google_sub = sub}
                 n == Len(db.users)
             IN  /\ IF known = {}
                    THEN /\ Len(db'.users) = n + 1
                         /\ SubSeq(db'.users, 1, n) = db.users
                         /\ db'.users[n + 1].google_sub = sub
                         /\ db'.users[n + 1].total_saved = 0
                         /\ db'.users[n + 1].current_streak = 0
                         /\ response'.status = 307
                         /\ response'.user = n + 1
                    ELSE /\ db'.users = db.users
                         /\ response'.status = 307
                         /\ response'.user \in known
                 /\ \A i, j \in 1..Len(db'.users) :
                       db'.users[i].google_sub = db'.users[j].google_sub
                       => i = j ]_vars

\* the status get_me answers with when the token's user has no row
NotFound == 404

\* C17: get_dashboard for a user id without a users row ends with the
\* client error NotFound that get_me gives, and changes nothing in the
\* database.
C17_DashboardNotFound ==
    [][ \A u \in TokenIds :
          (GetDashboard(u) /\ u \notin UserIds)
          => (response'.status = NotFound /\ db' = db) ]_vars

\* the sacrifice rows of user u in database d, each with its row id
SacrificesOf(d, u) ==
    {<<i, d.sacrifices[i]>> : i \in OwnedBy(d.sacrifices, u)}

\* C18: an account's total saved, streak and sacrifice rows change only in
\* the step in which a log_sacrifice of that account commits: create_goal,
\* get_dashboard, google_callback and the log_sacrifice calls of other
\* accounts leave them as they are. No step changes a goal row: goals are
\* inserted with current_amount 0 and stay as inserted.
C18_OnlyOwnLogSacrificeMutates ==
    [][ db' # db
        => /\ \A u \in AllIds :
                (\/ SacrificesOf(db', u) # SacrificesOf(db, u)
                 \/ (u \in UserIds /\ db'.users[u] # db.users[u]))
                => \E p \in Procs :
                      pc[p] = "commit" /\ Succeeds(p) /\ uid[p] = u
           /\ SubSeq(db'.goals, 1, Len(db.goals)) = db.goals
           /\ \A g \in (Len(db.goals) + 1)..Len(db'.goals) :
                 db'.goals[g].current_amount = 0 ]_vars

\* a created account has committed a goal after account 1 logged a
\* sacrifice: its total and streak are still 0 and it owns no sacrifice row
C18_Witness ==
    \E u \in created :
        /\ response.op = "goal" /\ response.status = 200 /\ response.user = u
        /\ okCnt[1] = 1
        /\ db.users[1].total_saved # InitialTotal(1)
        /\ db.users[u].total_saved = 0
        /\ db.users[u].current_streak = 0
        /\ OwnedBy(db.sacrifices, u) = {}

\* C20: every goal row, sacrifice row and feed event belongs to a user that
\* has a row in users: a create_goal or log_sacrifice whose token carries an
\* id without a users row writes nothing.
C20_ReferentialIntegrity ==
    /\ \A i \in 1..Len(db.goals) : db.goals[i].user_id \in UserIds
    /\ \A i \in 1..Len(db.sacrifices) : db.sacrifices[i].user_id \in UserIds
    /\ \A i \in 1..Len(db.feed) : db.feed[i].user_id \in UserIds

\* ------------------------------------------------ a returning account
\* the database after google_callback created account 4 for the subject
\* "g-1" and that account logged "Tea" once
ReturningDb ==
    LET u == Len(DummyUsers) + 1
        s == Len(DummySacrifices) + 1
    IN  [users |-> Append(DummyUsers,
                          [email |-> "a@example.com", google_sub |-> "g-1",
                           total_saved |-> 450, current_streak |-> 1]),
         goals |-> DummyGoals,
         sacrifices |-> Append(DummySacrifices,
                               [user_id |-> u, title |-> "Tea",
                                amount |-> 450, days_count |-> 1]),
         feed |-> Append(DummyFeed,
                         [user_id |-> u, event_type |-> "sacrifice_logged",
                          ref_id |-> s, title |-> "Tea", days |-> 1])]

\* every handler thread idle, no transaction open, nothing answered yet
AtRest ==
    /\ tx = [p \in Procs |-> NoTx]
    /\ lock = 0
    /\ pc = [p \in Procs |-> "idle"]
    /\ uid = [p \in Procs |-> 0]
    /\ req = [p \in Procs |-> NoRequest]
    /\ existing = [p \in Procs |-> NoRow]
    /\ new_days = [p \in Procs |-> 0]
    /\ row_id = [p \in Procs |-> 0]
    /\ response = NoResponse
    /\ ops = 0
    /\ logins = 0
    /\ seen = [p \in Procs |-> 0]
    /\ raced = {}

\* the server at rest with ReturningDb committed
InitReturning ==
    /\ db = ReturningDb
    /\ AtRest
    /\ okSum = [u \in AllIds |-> IF u = Len(DummyUsers) + 1 THEN 450 ELSE 0]
    /\ okCnt = [u \in AllIds |-> IF u = Len(DummyUsers) + 1 THEN 1 ELSE 0]
    /\ matched = [s \in 1..(Len(ReturningDb.sacrifices) + MaxOps) |-> 0]
    /\ created = {Len(DummyUsers) + 1}

SpecReturning == InitReturning /\ [][Next]_vars

RECURSIVE SumDays(_, _)
\* the sum of days_count over the sacrifice rows of d with ids in S
SumDays(d, S) ==
    IF S = {} THEN 0
    ELSE LET i == CHOOSE i \in S : TRUE
         IN  d.sacrifices[i].days_count + SumDays(d, S \ {i})

\* the sacrifice_logged events of user u in the feed of d
LoggedEvents(d, u) ==
    {i \in OwnedBy(d.feed, u) : d.feed[i].event_type = "sacrifice_logged"}

\* C19: for every account google_callback created, in every state, the
\* streak equals the sum of the days_count of the account's sacrifice rows
\* and equals the number of sacrifice_logged events the account owns in the
\* feed, whether its log_sacrifice calls ran one after another or
\* concurrently.
C19_StreakCountsAndEventsAgree ==
    \A u \in created :
        /\ db.users[u].current_streak =
              SumDays(db, OwnedBy(db.sacrifices, u))
        /\ db.users[u].current_streak = Cardinality(LoggedEvents(db, u))

\* ------------------------------------------------------------ leaderboard
\* LIMIT of get_leaderboard's query
LeaderboardLimit == 10

RECURSIVE OrderByAscLimit(_, _, _)
\* OrderByDescLimit sorting ascending
OrderByAscLimit(ids, key, n) ==
    IF ids = {} \/ n = 0 THEN {<<>>}
    ELSE LET first == {i \in ids : \A j \in ids : key[i] <= key[j]}
         IN  UNION {{<<i>> \o r : r \in OrderByAscLimit(ids \ {i}, key, n - 1)} :
                    i \in first}

RECURSIVE OrderByDescLimit(_, _, _)
\* ORDER BY key DESC LIMIT n over the rows ids: every result the query
\* allows. Rows with equal keys come in an order the query does not fix, so
\* each of them may be the next row.
OrderByDescLimit(ids, key, n) ==
    IF ids = {} \/ n = 0 THEN {<<>>}
    ELSE LET first == {i \in ids : \A j \in ids : key[i] >= key[j]}
         IN  UNION {{<<i>> \o r : r \in OrderByDescLimit(ids \ {i}, key, n - 1)} :
                    i \in first}

\* get_leaderboard: the ids of the rows its SELECT returns, in order
GetLeaderboard ==
    /\ ops < MaxOps
    /\ ops' = ops + 1
    /\ \E r \in OrderByDescLimit(UserIds,
                                 [i \in UserIds |-> db.users[i].total_saved],
                                 LeaderboardLimit) :
          response' = [NoResponse EXCEPT !.op = "leaderboard", !.status = 200,
                                         !.rows = r]
    /\ UNCHANGED <<db, tx, lock, pc, uid, req, locals, hist>>

\* accounts google_callback created beyond the dummy ones: one more in all
\* than the leaderboard shows
NewAccounts == LeaderboardLimit + 1 - Len(DummyUsers)

\* the amount of the j-th new account's one log_sacrifice: accounts 1 and 2
\* log 10.00 or 14.50, accounts 3 and 4 log 20.00 or 24.50, and so on; H
\* holds the accounts that log the higher amount
FirstAmount(j, H) == 1000 * ((j + 1) \div 2) + (IF j \in H THEN 450 ELSE 0)

\* the database after google_callback created NewAccounts accounts and each
\* of them logged "Tea" once
LeaderboardDb(H) ==
    LET nu == Len(DummyUsers)
        ns == Len(DummySacrifices)
    IN  [users |-> DummyUsers \o
                   [j \in 1..NewAccounts |->
                      [email |-> "a" \o ToString(j) \o "@example.com",
                       google_sub |-> "g-" \o ToString(j),
                       total_saved |-> FirstAmount(j, H), current_streak |-> 1]],
         goals |-> DummyGoals,
         sacrifices |-> DummySacrifices \o
                   [j \in 1..NewAccounts |->
                      [user_id |-> nu + j, title |-> "Tea",
                       amount |-> FirstAmount(j, H), days_count |-> 1]],
         feed |-> DummyFeed \o
                   [j \in 1..NewAccounts |->
                      [user_id |-> nu + j, event_type |-> "sacrifice_logged",
                       ref_id |-> ns + j, title |-> "Tea", days |-> 1]]]

\* the server at rest with one of these databases committed
InitLeaderboard ==
    /\ db \in {LeaderboardDb(H) : H \in SUBSET (1..NewAccounts)}
    /\ AtRest
    /\ created = {Len(DummyUsers) + j : j \in 1..NewAccounts}
    /\ okSum = [u \in AllIds \cup created |->
                  IF u \in created THEN db.users[u].total_saved ELSE 0]
    /\ okCnt = [u \in AllIds \cup created |-> IF u \in created THEN 1 ELSE 0]
    /\ matched = [s \in 1..(Len(db.sacrifices) + MaxOps) |-> 0]

NextLeaderboard == GetLeaderboard

SpecLeaderboard == InitLeaderboard /\ [][NextLeaderboard]_vars

\* C14: get_leaderboard returns at most 10 accounts, in non-increasing
\* order of total saved, and they are the top accounts: no account left out
\* has a higher total than one returned, and none is left out while fewer
\* than 10 are returned.
C14_TopTenDescending ==
    [][ GetLeaderboard
        => LET r == response'.rows
               shown == {r[k] : k \in 1..Len(r)}
           IN  /\ Len(r) <= 10
               /\ Cardinality(shown) = Len(r)
               /\ shown \subseteq UserIds
               /\ \A k \in 1..(Len(r) - 1) :
                     db.users[r[k]].total_saved >= db.users[r[k + 1]].total_saved
               /\ \A u \in UserIds \ shown :
                     /\ Len(r) = 10
                     /\ \A v \in shown :
                           db.users[u].total_saved <= db.users[v].total_saved ]_vars

\* the leaderboard was cut at 10 of 11 accounts, the account left out tied
\* with the last one shown
C14_Witness ==
    /\ response.op = "leaderboard"
    /\ Len(response.rows) = 10
    /\ \E u \in UserIds :
          /\ \A k \in 1..10 : response.rows[k] # u
          /\ db.users[u].total_saved = db.users[response.rows[10]].total_saved

\* C15: for accounts with equal total saved the leaderboard's order is
\* fixed by the query: two get_leaderboard calls on the same database return
\* the same sequence, the tied accounts in the same order and the same
\* tied account cut at the limit.
C15_LeaderboardDeterministic ==
    [][ (GetLeaderboard /\ response.op = "leaderboard")
        => response'.rows = response.rows ]_vars

\* ------------------------------------------------------------------- feed
\* LIMIT of get_feed's query
FeedLimit == 20

\* a feed row with its created_at: CURRENT_TIMESTAMP at the INSERT, which
\* counts whole seconds
Stamped(row, t) == row @@ [created_at |-> t]

\* get_feed: the ids of the rows its SELECT returns, in order. The JOIN
\* keeps the events whose user has a row in users.
GetFeed ==
    LET joined == {i \in 1..Len(db.feed) : db.feed[i].user_id \in UserIds}
    IN  /\ ops < MaxOps
        /\ ops' = ops + 1
        /\ \E r \in OrderByDescLimit(joined,
                                     [i \in joined |-> db.feed[i].created_at],
                                     FeedLimit) :
              response' = [NoResponse EXCEPT !.op = "feed", !.status = 200,
                                             !.rows = r]
        /\ UNCHANGED <<db, tx, lock, pc, uid, req, locals, hist>>

\* the database after google_callback created account 4 for the subject
\* "g-1" and that account logged "Tea" k times, one call after the other:
\* the dummy events carry the second of the start-up, the k-th log the
\* k-th second after it, except that for j > 0 the logs j and j + 1 fell
\* into the same second
FeedDb(k, j) ==
    LET u == Len(DummyUsers) + 1
        s == Len(DummySacrifices) + 1
    IN  [users |-> Append(DummyUsers,
                          [email |-> "a@example.com", google_sub |-> "g-1",
                           total_saved |-> 450 * k, current_streak |-> k]),
         goals |-> DummyGoals,
         sacrifices |-> Append(DummySacrifices,
                               [user_id |-> u, title |-> "Tea",
                                amount |-> 450, days_count |-> k]),
         feed |-> [i \in 1..Len(DummyFeed) |-> Stamped(DummyFeed[i], 0)]
                  \o
                  [i \in 1..k |->
                     Stamped([user_id |-> u, event_type |-> "sacrifice_logged",
                              ref_id |-> s, title |-> "Tea", days |-> i],
                             IF j # 0 /\ i > j THEN i - 1 ELSE i)]]

\* the server at rest with one of these databases committed: one event
\* fewer than the feed shows, as many, or one more
InitFeed ==
    /\ \E k \in {FeedLimit - 1, FeedLimit, FeedLimit + 1} :
          /\ db \in {FeedDb(k, j) : j \in 0..(k - 1)}
          /\ okSum = [u \in AllIds |-> IF u = Len(DummyUsers) + 1 THEN 450 * k ELSE 0]
          /\ okCnt = [u \in AllIds |-> IF u = Len(DummyUsers) + 1 THEN k ELSE 0]
          /\ matched = [s \in 1..(Len(DummySacrifices) + 1 + MaxOps) |->
                          IF s = Len(DummySacrifices) + 1 THEN k - 1 ELSE 0]
    /\ AtRest
    /\ created = {Len(DummyUsers) + 1}

NextFeed == GetFeed

SpecFeed == InitFeed /\ [][NextFeed]_vars

\* C16: get_feed returns at most 20 events, the most recently appended ones
\* of all accounts, strictly ordered by creation, newest first: of any two
\* events returned the one appended later comes first, also when both were
\* appended within one tick of the clock.
C16_FeedNewestFirst ==
    [][ GetFeed
        => LET r == response'.rows
               shown == {r[k] : k \in 1..Len(r)}
           IN  /\ Len(r) <= 20
               /\ Cardinality(shown) = Len(r)
               /\ shown \subseteq 1..Len(db.feed)
               /\ \A e \in (1..Len(db.feed)) \ shown :
                     Len(r) = 20 /\ \A v \in shown : e < v
               /\ \A k \in 1..(Len(r) - 1) : r[k] > r[k + 1] ]_vars

====
